---- MODULE Spec2Model ----
(***************************************************************************)
(* A model of the futil package: Ls, Walk, WalkFromTo, Cp, CpDir, Mv,       *)
(* MvDir, ZipDir / MZipDir and Unzip / MUnzip, over a small file system.   *)
(* The package exists in two near-identical files, one written with        *)
(* path.Join (futil.go) and one with filepath.Join (part_000); `variant`   *)
(* says which of the two is running and `goos` the system it was built     *)
(* for, which decides the separator filepath.Join writes.                  *)
(*                                                                         *)
(* A path string is a sequence of tokens: a name, the separator "/", the   *)
(* backslash of Windows or the dot ".".  A file-system key is the sequence *)
(* of names from the working directory down to the object.                 *)
(***************************************************************************)
EXTENDS Integers, Sequences, FiniteSets, TLC

VARIABLES
    fs,          \* the file system: key -> [isDir, data]
    fs0,         \* the file system when the operation was called (history)
    unreadable,  \* keys of directories whose read fails (permission)
    variant,     \* "path" (futil.go) or "filepath" (part_000)
    goos,        \* "linux" or "windows": the system the package is built for
    op,          \* the exported function that was called
    from,        \* its first path argument
    to,          \* its second path argument
    pc,          \* position of the called function
    stack,       \* the frames of the recursive Walk, outermost first
    retval,      \* value a returning Walk hands to the frame that called it
    result,      \* value returned to the caller of the operation
    events,      \* history of the calls made: listings, visits, primitives
    archive      \* the zip stream: the entries written, and whether it is finalized

vars == <<fs, fs0, unreadable, variant, goos, op, from, to, pc, stack, retval, result,
          events, archive>>

-----------------------------------------------------------------------------
(* Bounds *)

\* Largest number of entries below the root of a walked tree.
MaxNodes == 4

\* Largest number of entries of the directory handed to Ls alone.
MaxLsEntries == 7

-----------------------------------------------------------------------------
(* Values *)

Nil == "nil"
ErrSkipDir == "ErrSkipDir"
Pending == "pending"
None == "none"

\* Errors a visitor of the caller may return besides ErrSkipDir.
VisitorErrors == {"ErrA", "ErrB"}
VisitorReturns == {Nil, ErrSkipDir} \cup VisitorErrors

Variants == {"path", "filepath"}

Systems == {"linux", "windows"}

\* The zip stream before anything is written to it.
NoArchive == [entries |-> <<>>, closed |-> FALSE]

\* File names in the order ioutil.ReadDir sorts them (by name).
NameOrder == <<"A", "B", "a", "b", "c", "d", "e", "f", "g", "h", "i", "j">>

TreeNames == {"a", "b"}

Sep == "/"
Backslash == "\\"
Dot == "."

-----------------------------------------------------------------------------
(* Paths: path.Join / filepath.Join, path.Clean, strings.TrimPrefix *)

Last(s) == s[Len(s)]
Front(s) == SubSeq(s, 1, Len(s) - 1)

\* The separator Join writes: path.Join always the slash, filepath.Join the
\* separator of the system.
Separator == IF variant = "filepath" /\ goos = "windows" THEN Backslash ELSE Sep

\* The names of a path string, in order: what the OS resolves it to.  (The
\* backslash is written by the Windows build alone, and Windows takes both.)
Resolve(p) == SelectSeq(p, LAMBDA t : t # Sep /\ t # Backslash /\ t # Dot)

RECURSIVE JoinNames(_)
JoinNames(names) ==
    IF Len(names) = 0 THEN <<>>
    ELSE IF Len(names) = 1 THEN names
    ELSE <<Head(names), Separator>> \o JoinNames(Tail(names))

\* path.Clean of a relative path without "..": no "." element, no doubled or
\* trailing separator; the empty path becomes ".".
Clean(p) == IF Resolve(p) = <<>> THEN <<Dot>> ELSE JoinNames(Resolve(p))

\* path.Join(a, b): empty elements are ignored, the result is cleaned.
Join(a, b) ==
    IF a = <<>> /\ b = <<>> THEN <<>>
    ELSE IF a = <<>> THEN Clean(b)
    ELSE IF b = <<>> THEN Clean(a)
    ELSE Clean(a \o <<Separator>> \o b)

HasPrefix(s, prefix) ==
    Len(prefix) <= Len(s) /\ SubSeq(s, 1, Len(prefix)) = prefix

TrimPrefix(s, prefix) ==
    IF HasPrefix(s, prefix) THEN SubSeq(s, Len(prefix) + 1, Len(s)) ELSE s

-----------------------------------------------------------------------------
(* The file system *)

DirNode == [isDir |-> TRUE, data |-> <<>>]
FileNode(d) == [isDir |-> FALSE, data |-> d]

Exists(f, k) == k \in DOMAIN f
IsDirAt(f, k) == Exists(f, k) /\ f[k].isDir
IsFileAt(f, k) == Exists(f, k) /\ ~f[k].isDir

\* k lies strictly below d.
Below(k, d) == Len(k) > Len(d) /\ SubSeq(k, 1, Len(d)) = d

Put(f, k, node) == [x \in DOMAIN f \cup {k} |-> IF x = k THEN node ELSE f[x]]
Delete(f, k) == [x \in DOMAIN f \ {k} |-> f[x]]

\* os.FileInfo of the object at key k.
FileInfo(f, k) == [name |-> Last(k), isDir |-> f[k].isDir]

\* ioutil.ReadDir: the entries of the directory, sorted by name, or an error
\* and no entries.
ReadDir(f, bad, dir) ==
    LET k == Resolve(dir)
        names == SelectSeq(NameOrder, LAMBDA n : Exists(f, Append(k, n)))
    IN  IF ~Exists(f, k) THEN [files |-> <<>>, err |-> "ErrNotExist"]
        ELSE IF ~f[k].isDir THEN [files |-> <<>>, err |-> "ErrNotDir"]
        ELSE IF k \in bad THEN [files |-> <<>>, err |-> "ErrPermission"]
        ELSE [files |-> [i \in 1..Len(names) |-> FileInfo(f, Append(k, names[i]))],
              err |-> Nil]

-----------------------------------------------------------------------------
(* util.go: FileInfoByType, and sort.Sort over it *)

LessFilesFirst(f, a, b) ==
    LET aa == IF f[a].isDir THEN 1 ELSE 0
        bb == IF f[b].isDir THEN 1 ELSE 0
    IN  aa < bb

LessNever(f, a, b) == FALSE

Less(f, a, b) ==
    LET aa == IF f[a].isDir THEN 0 ELSE 1
        bb == IF f[b].isDir THEN 0 ELSE 1
    IN  aa < bb

Swap(f, a, b) == [f EXCEPT ![a] = f[b], ![b] = f[a]]

\* sort's insertionSort(data, a, b) over the slice [a, b), indices from 1.
RECURSIVE InsertionInner(_, _, _)
InsertionInner(f, j, a) ==
    IF j > a /\ Less(f, j, j - 1)
    THEN InsertionInner(Swap(f, j, j - 1), j - 1, a)
    ELSE f

RECURSIVE InsertionOuter(_, _, _, _)
InsertionOuter(f, i, a, b) ==
    IF i < b THEN InsertionOuter(InsertionInner(f, i, a), i + 1, a, b) ELSE f

InsertionSort(f, a, b) == InsertionOuter(f, a + 1, a, b)

\* The pass with gap 6 that quickSort (Go before 1.19) makes over a slice of
\* at most 12 elements before it calls insertionSort.
RECURSIVE ShellPass(_, _, _)
ShellPass(f, i, b) ==
    IF i < b
    THEN ShellPass(IF Less(f, i, i - 6) THEN Swap(f, i, i - 6) ELSE f, i + 1, b)
    ELSE f

\* sort.Sort on a slice of at most 12 elements.  pdqsort (Go 1.19 and later)
\* is insertionSort alone; quickSort (earlier) is the gap-6 pass and then
\* insertionSort.  The toolchain decides which of the two runs.
SortOutcomes(f) ==
    LET n == Len(f)
    IN  IF n <= 1 THEN {f}
        ELSE {InsertionSort(f, 1, n + 1),
              InsertionSort(ShellPass(f, 1 + 6, n + 1), 1, n + 1)}

\* Ls: the directory read, sorted in place, and the read's error.
Ls(f, bad, dir) ==
    LET r == ReadDir(f, bad, dir)
    IN  {[files |-> s, err |-> r.err] : s \in SortOutcomes(r.files)}

-----------------------------------------------------------------------------
(* Events *)

\* A call of Ls by Walk (or by the caller): Ls(dir) returned the error ret and
\* the entries rest.
LsEvent(dir, out) ==
    [kind |-> "ls", dir |-> dir, name |-> "", isDir |-> TRUE,
     ret |-> out.err, rest |-> out.files]

\* A call of the visitor: fn(dir, v) returned ret; rest are the entries of the
\* listing that follow v.  The calls of primitives fn made come before it.
VisitEvent(dir, v, ret, rest) ==
    [kind |-> "visit", dir |-> dir, name |-> v.name, isDir |-> v.isDir,
     ret |-> ret, rest |-> rest]

\* The key of the object a visit event is about.
Target(e) == Append(Resolve(e.dir), e.name)

-----------------------------------------------------------------------------
(* OS primitives: what a call can do to the file system, and what it returns *)

Outcome(f, err) == [fs |-> f, err |-> err]

Parent(k) == Front(k)

\* The data of a file after `new` was written from offset 0 without
\* truncating: the bytes beyond Len(new) stay.
Overwrite(old, new) == new \o SubSeq(old, Len(new) + 1, Len(old))

\* The keys of the subtree at k, k included.
Subtree(f, k) == {x \in DOMAIN f : x = k \/ Below(x, k)}

\* os.Rename(src, dst): moves the object (with all below it) and replaces a
\* file or an empty directory of the same kind at dst; or fails (the paths are
\* on two devices, permissions) and changes nothing.
RenameOutcomes(f, src, dst) ==
    LET sk == Resolve(src)
        dk == Resolve(dst)
        moved == [x \in ((DOMAIN f \ Subtree(f, sk)) \ {dk})
                        \cup {dk \o SubSeq(y, Len(sk) + 1, Len(y)) : y \in Subtree(f, sk)} |->
                     IF HasPrefix(x, dk) THEN f[sk \o SubSeq(x, Len(dk) + 1, Len(x))]
                     ELSE f[x]]
        can == /\ Exists(f, sk)
               /\ sk # <<>> /\ dk # <<>>
               /\ IsDirAt(f, Parent(dk))
               /\ ~HasPrefix(dk, sk)
               /\ Exists(f, dk) =>
                     /\ f[dk].isDir = f[sk].isDir
                     /\ Subtree(f, dk) = {dk}
    IN  IF ~Exists(f, sk) THEN {Outcome(f, "ErrNotExist")}
        ELSE IF sk = dk THEN {Outcome(f, Nil)}
        ELSE IF can THEN {Outcome(moved, Nil), Outcome(f, "ErrCrossDevice")}
        ELSE {Outcome(f, "ErrRename")}

\* os.Remove(p): removes a file or an empty directory.
RemoveOutcomes(f, p) ==
    LET k == Resolve(p)
    IN  IF ~Exists(f, k) THEN {Outcome(f, "ErrNotExist")}
        ELSE IF k = <<>> \/ Subtree(f, k) # {k} THEN {Outcome(f, "ErrNotEmpty")}
        ELSE {Outcome(Delete(f, k), Nil), Outcome(f, "ErrPermission")}

\* os.Mkdir(p): creates one directory in an existing directory.
MkdirOutcomes(f, p) ==
    LET k == Resolve(p)
    IN  IF Exists(f, k) THEN {Outcome(f, "ErrExist")}
        ELSE IF ~IsDirAt(f, Parent(k)) THEN {Outcome(f, "ErrNotExist")}
        ELSE {Outcome(Put(f, k, DirNode), Nil), Outcome(f, "ErrPermission")}

\* os.RemoveAll(p): removes p and all below it; nil when p is not there.
RemoveAllOutcomes(f, p) ==
    LET k == Resolve(p)
    IN  IF ~Exists(f, k) THEN {Outcome(f, Nil)}
        ELSE {Outcome([x \in DOMAIN f \ Subtree(f, k) |-> f[x]], Nil),
              Outcome(f, "ErrPermission")}

\* os.MkdirAll(p): makes p and the directories above it that are missing;
\* nil when p is a directory already.
MkdirAllOutcomes(f, p) ==
    LET k == Resolve(p)
        above == {SubSeq(k, 1, n) : n \in 0..Len(k)}
        made == [x \in DOMAIN f \cup above |-> IF x \in DOMAIN f THEN f[x] ELSE DirNode]
    IN  IF IsDirAt(f, k) THEN {Outcome(f, Nil)}
        ELSE IF \E x \in above : IsFileAt(f, x) THEN {Outcome(f, "ErrNotDir")}
        ELSE {Outcome(made, Nil), Outcome(f, "ErrPermission")}

-----------------------------------------------------------------------------
(* Cp *)

\* io.Copy(fb, fa): every byte is written and nil returned, or a fault stops
\* the stream after k bytes.
CopyOutcomes(f, sk, dk) ==
    LET data == f[sk].data
        upto(k) == Put(f, dk, FileNode(Overwrite(f[dk].data, SubSeq(data, 1, k))))
    IN  {Outcome(upto(Len(data)), Nil)}
        \cup {Outcome(upto(k), "ErrIO") : k \in 0..(IF Len(data) = 0 THEN 0 ELSE Len(data) - 1)}

\* Cp(src, dst): open src read-only; open dst write-only, created when absent
\* (never truncated); io.Copy.
Cp(f, src, dst) ==
    LET sk == Resolve(src)
        dk == Resolve(dst)
        created == IF Exists(f, dk) THEN f ELSE Put(f, dk, FileNode(<<>>))
    IN  IF ~Exists(f, sk) THEN {Outcome(f, "ErrNotExist")}
        ELSE {Outcome(f, "ErrPermission")} \cup
             (IF dk = <<>> \/ IsDirAt(f, dk) THEN {Outcome(f, "ErrIsDir")}
              ELSE IF ~IsDirAt(f, Parent(dk)) THEN {Outcome(f, "ErrNotExist")}
              ELSE {Outcome(f, "ErrCreate")} \cup
                   (IF f[sk].isDir THEN {Outcome(created, "ErrIsDir")}
                    ELSE CopyOutcomes(created, sk, dk)))

-----------------------------------------------------------------------------
(* Mv *)

\* A call of an OS primitive or of Cp, and what it returned.
CallEvent(kind, path, err) ==
    [kind |-> kind, dir |-> path, name |-> "", isDir |-> FALSE,
     ret |-> err, rest |-> <<>>]

MvAfterCpAlwaysRemove(v, err) == IF v = "filepath" THEN "remove" ELSE "return"

\* What Mv does once the fallback Cp has returned err.  futil.go returns it
\* (`return Cp(from, to)`); part_000 returns it when it is an error and goes
\* on to os.Remove(from) otherwise.
MvAfterCp(v, err) ==
    IF v = "filepath" THEN (IF err # Nil THEN "return" ELSE "remove")
    ELSE "return"

MvOutcome(f, err, calls) == [fs |-> f, err |-> err, calls |-> calls]

\* Mv(src, dst): os.Rename; when it fails, Cp, and in part_000 os.Remove(src).
\* Each outcome carries the calls made, in order.
Mv(f, src, dst) ==
    UNION {
        LET c1 == <<CallEvent("rename", src, r.err)>>
        IN  IF r.err = Nil THEN {MvOutcome(r.fs, Nil, c1)}
            ELSE UNION {
                LET c2 == Append(c1, CallEvent("cp", src, c.err))
                IN  IF MvAfterCp(variant, c.err) = "return"
                    THEN {MvOutcome(c.fs, c.err, c2)}
                    ELSE {MvOutcome(d.fs, d.err, Append(c2, CallEvent("remove", src, d.err))) :
                             d \in RemoveOutcomes(c.fs, src)}
                : c \in Cp(r.fs, src, dst)}
        : r \in RenameOutcomes(f, src, dst)}

-----------------------------------------------------------------------------
(* Walk *)

Frame(dir) == [dir |-> dir, info |-> <<>>, i |-> 0, pc |-> "ls"]

Top == Last(stack)

SetTop(fr) == [stack EXCEPT ![Len(stack)] = fr]

AfterVisitNoRecursion(isDir, ret) ==
    IF isDir
    THEN IF ret # Nil
         THEN IF ret = ErrSkipDir THEN "continue" ELSE "return"
         ELSE "continue"
    ELSE IF ret # Nil THEN "return" ELSE "continue"

AfterVisitIgnoreSkip(isDir, ret) ==
    IF isDir
    THEN IF ret # Nil
         THEN IF ret = ErrSkipDir THEN "recurse" ELSE "return"
         ELSE "recurse"
    ELSE IF ret # Nil THEN "return" ELSE "continue"

AfterVisitSkipAborts(isDir, ret) ==
    IF isDir
    THEN IF ret # Nil THEN "return" ELSE "recurse"
    ELSE IF ret # Nil THEN "return" ELSE "continue"

\* What the loop body of Walk does once fn(dir, v) has returned ret.
AfterVisit(isDir, ret) ==
    IF isDir
    THEN IF ret # Nil
         THEN IF ret = ErrSkipDir THEN "continue" ELSE "return"
         ELSE "recurse"
    ELSE IF ret # Nil THEN "return" ELSE "continue"

AfterWalkSwallow(err) == "continue"

\* What the loop body does once the recursive Walk has returned err.
AfterWalk(err) == IF err # Nil THEN "return" ELSE "continue"

\* The closure CpDir hands to WalkFromTo: f and t are not used, the file is
\* copied between the two roots.
CpDirFn(f, source, target, info) ==
    IF info.isDir THEN {Outcome(f, Nil)}
    ELSE Cp(f, Join(from, <<info.name>>), Join(to, <<info.name>>))

\* The closure MvDir hands to WalkFromTo.  futil.go does nothing for a
\* directory and moves a file between the two roots; part_000 makes the
\* directory (the error of os.Mkdir is dropped) and moves a file from f to t.
MvDirFn(f, source, target, info) ==
    IF variant = "filepath"
    THEN IF info.isDir
         THEN {MvOutcome(m.fs, Nil,
                         <<CallEvent("mkdir", Join(target, <<info.name>>), m.err)>>) :
                  m \in MkdirOutcomes(f, Join(target, <<info.name>>))}
         ELSE Mv(f, Join(source, <<info.name>>), Join(target, <<info.name>>))
    ELSE IF info.isDir
         THEN {MvOutcome(f, Nil, <<>>)}
         ELSE Mv(f, Join(from, <<info.name>>), Join(to, <<info.name>>))

\* The destination path WalkFromTo hands to its fn for the source path.
WalkFromToTarget(source) == Join(to, TrimPrefix(source, from))

\* What a call of the visitor did: to the file system and to the zip stream,
\* the error it returned, and the calls of primitives it made.
VisitOutcome(f, err, calls, ar) ==
    [fs |-> f, err |-> err, calls |-> calls, archive |-> ar]

\* The closure WalkFromTo hands to Walk.
WalkFromToFn(f, ar, source, info) ==
    IF op = "CpDir"
    THEN {VisitOutcome(o.fs, o.err, <<>>, ar) :
             o \in CpDirFn(f, source, WalkFromToTarget(source), info)}
    ELSE {VisitOutcome(o.fs, o.err, o.calls, ar) :
             o \in MvDirFn(f, source, WalkFromToTarget(source), info)}

\* source = path.Clean(source) + "/"
ZipSource == Clean(from) \o <<Sep>>

\* header.Name: the path of the entry with the source trimmed off its front,
\* and a slash at the end for a directory.
HeaderName(p, info) ==
    Join(TrimPrefix(p, ZipSource), <<info.name>>)
        \o (IF info.isDir THEN <<Sep>> ELSE <<>>)

\* The zip stream with one more entry.
WithEntry(ar, name, isDir, data) ==
    [ar EXCEPT !.entries = Append(@, [name |-> name, isDir |-> isDir, data |-> data])]

\* The closure ZipDir hands to Walk: CreateHeader (the writer can fail), and
\* for a file os.OpenFile and io.Copy into the entry.
ZipDirFn(f, ar, p, info) ==
    LET name == HeaderName(p, info)
        k == Resolve(Join(p, <<info.name>>))
        data == IF IsFileAt(f, k) THEN f[k].data ELSE <<>>
    IN  {VisitOutcome(f, "ErrWrite", <<>>, ar)} \cup
        (IF info.isDir THEN {VisitOutcome(f, Nil, <<>>, WithEntry(ar, name, TRUE, <<>>))}
         ELSE IF ~IsFileAt(f, k)
              THEN {VisitOutcome(f, "ErrNotExist", <<>>, WithEntry(ar, name, FALSE, <<>>))}
         ELSE {VisitOutcome(f, "ErrPermission", <<>>, WithEntry(ar, name, FALSE, <<>>)),
               VisitOutcome(f, Nil, <<>>, WithEntry(ar, name, FALSE, data))}
              \cup {VisitOutcome(f, "ErrIO", <<>>, WithEntry(ar, name, FALSE, SubSeq(data, 1, n))) :
                       n \in 0..(Len(data) - 1)})

\* fn(dir, v): the visitor of the caller of Walk returns what it likes and
\* leaves the file system alone; CpDir's and MvDir's is WalkFromTo's closure,
\* ZipDir's writes the zip stream.
Fn(f, ar, dir, v) ==
    IF op = "Walk" THEN {VisitOutcome(f, r, <<>>, ar) : r \in VisitorReturns}
    ELSE IF op = "ZipDir" THEN ZipDirFn(f, ar, dir, v)
    ELSE WalkFromToFn(f, ar, dir, v)

ZipAfterWalkAlwaysClose(err) == "close"

\* What ZipDir does once Walk has returned err: returns an error, and goes on
\* to zwr.Close() after nil.
ZipAfterWalk(err) == IF err # Nil THEN "return" ELSE "close"

MvDirAfterWalkAlwaysRemoveAll(v, err) == IF v = "filepath" THEN "removeall" ELSE "return"

\* What MvDir does once WalkFromTo has returned err: futil.go returns it;
\* part_000 returns an error and goes on to os.RemoveAll(from) after nil.
MvDirAfterWalk(v, err) ==
    IF v = "filepath" /\ err = Nil THEN "removeall" ELSE "return"

\* Where the caller of the outermost Walk goes on once Walk has returned err.
AfterOuterWalk(err) ==
    IF op = "MvDir" THEN MvDirAfterWalk(variant, err)
    ELSE IF op = "ZipDir" THEN ZipAfterWalk(err)
    ELSE "return"

\* `return err` of the running Walk: to the frame that called it, or, from
\* the outermost one, to the caller of the operation.
ReturnFromWalk(err) ==
    IF Len(stack) = 1
    THEN /\ stack' = <<>>
         /\ retval' = None
         /\ IF AfterOuterWalk(err) = "return"
            THEN result' = err /\ pc' = "done"
            ELSE result' = result /\ pc' = AfterOuterWalk(err)
    ELSE /\ stack' = Front(stack)
         /\ retval' = err
         /\ UNCHANGED <<result, pc>>

\* info, err := Ls(dir); if err != nil { return err }
WalkLs ==
    /\ pc = "walk" /\ stack # <<>> /\ Top.pc = "ls"
    /\ \E o \in Ls(fs, unreadable, Top.dir) :
          /\ events' = Append(events, LsEvent(Top.dir, o))
          /\ IF o.err # Nil
             THEN ReturnFromWalk(o.err)
             ELSE /\ stack' = SetTop([Top EXCEPT !.info = o.files, !.i = 1, !.pc = "loop"])
                  /\ UNCHANGED <<retval, result, pc>>
    /\ UNCHANGED <<fs, fs0, unreadable, variant, goos, op, from, to, archive>>

\* One turn of the loop: fn(dir, v), then continue, return or call Walk.
WalkVisit ==
    /\ pc = "walk" /\ stack # <<>> /\ Top.pc = "loop" /\ Top.i <= Len(Top.info)
    /\ LET v == Top.info[Top.i]
       IN  \E o \in Fn(fs, archive, Top.dir, v) :
              /\ fs' = o.fs
              /\ archive' = o.archive
              /\ events' = Append(events \o o.calls,
                     VisitEvent(Top.dir, v, o.err, SubSeq(Top.info, Top.i + 1, Len(Top.info))))
              /\ CASE AfterVisit(v.isDir, o.err) = "return" -> ReturnFromWalk(o.err)
                   [] AfterVisit(v.isDir, o.err) = "continue" ->
                        /\ stack' = SetTop([Top EXCEPT !.i = Top.i + 1])
                        /\ UNCHANGED <<retval, result, pc>>
                   [] AfterVisit(v.isDir, o.err) = "recurse" ->
                        /\ stack' = Append(SetTop([Top EXCEPT !.pc = "call"]),
                                           Frame(Join(Top.dir, <<v.name>>)))
                        /\ UNCHANGED <<retval, result, pc>>
    /\ UNCHANGED <<fs0, unreadable, variant, goos, op, from, to>>

\* err = Walk(path.Join(dir, v.Name()), fn) has returned.
WalkResume ==
    /\ pc = "walk" /\ stack # <<>> /\ Top.pc = "call" /\ retval # None
    /\ IF AfterWalk(retval) = "return"
       THEN ReturnFromWalk(retval)
       ELSE /\ stack' = SetTop([Top EXCEPT !.i = Top.i + 1, !.pc = "loop"])
            /\ retval' = None
            /\ UNCHANGED <<result, pc>>
    /\ UNCHANGED <<fs, fs0, unreadable, variant, goos, op, from, to, events, archive>>

\* The loop is over: return nil.
WalkReturn ==
    /\ pc = "walk" /\ stack # <<>> /\ Top.pc = "loop" /\ Top.i > Len(Top.info)
    /\ ReturnFromWalk(Nil)
    /\ UNCHANGED <<fs, fs0, unreadable, variant, goos, op, from, to, events, archive>>

-----------------------------------------------------------------------------
(* The trees an operation is called on *)

SrcRoot == <<"A">>
DstRoot == <<"B">>

\* The spellings of the source root a caller may pass.
RootSpellings == {<<"A">>, <<"A", Sep>>, <<Dot, Sep, "A">>}

Rank(n) == CHOOSE i \in 1..Len(NameOrder) : NameOrder[i] = n

\* The bytes of the file created at key k: different for different keys.
DataFor(k) == [i \in 1..Len(k) |-> Rank(k[i])]

\* The working directory holding an empty directory A.
EmptyTree == [k \in {<<>>, SrcRoot} |-> DirNode]

\* The object created at key k: a directory or a file.
NewNode(k, isDir) == IF isDir THEN DirNode ELSE FileNode(DataFor(k))

\* The trees with one more entry (a file or an empty directory) than t.
Grow(t) ==
    {Put(t, Append(x[1], x[2]), NewNode(Append(x[1], x[2]), x[3])) :
        x \in {y \in Subtree(t, SrcRoot) \X TreeNames \X BOOLEAN :
                  t[y[1]].isDir /\ ~Exists(t, Append(y[1], y[2]))}}

RECURSIVE TreesUpTo(_)
TreesUpTo(n) ==
    IF n = 0 THEN {EmptyTree}
    ELSE LET prev == TreesUpTo(n - 1)
         IN  prev \cup UNION {Grow(t) : t \in prev}

\* The directories of t at or below the root of the walk.
DirsOf(t) == {k \in Subtree(t, SrcRoot) : t[k].isDir}

-----------------------------------------------------------------------------
(* Walk(dir, fn) called on a tree, with a visitor of the caller *)

Init ==
    /\ fs \in TreesUpTo(MaxNodes)
    /\ fs0 = fs
    /\ unreadable \in {{}} \cup {{k} : k \in DirsOf(fs)}
    /\ variant \in Variants
    /\ goos \in Systems
    /\ op = "Walk"
    /\ from \in RootSpellings
    /\ to = <<>>
    /\ pc = "walk"
    /\ stack = <<Frame(from)>>
    /\ retval = None
    /\ result = Pending
    /\ events = <<>>
    /\ archive = NoArchive

Next == WalkLs \/ WalkVisit \/ WalkResume \/ WalkReturn

Spec == Init /\ [][Next]_vars

-----------------------------------------------------------------------------
(* Claims about Walk *)

Visits == {i \in 1..Len(events) : events[i].kind = "visit"}
Listings == {i \in 1..Len(events) : events[i].kind = "ls"}

\* The entries strictly below the root of the walk, when it was called.
EntriesOf(t, root) == Subtree(t, root) \ {root}

VisitsOf(k) == {i \in Visits : Target(events[i]) = k}

AllVisitsNil == \A i \in Visits : events[i].ret = Nil

\* events[j] is the call of the visitor, in directory dir, for the entry v.
IsVisitOf(j, dir, v) ==
    /\ j \in Visits
    /\ events[j].dir = dir
    /\ events[j].name = v.name
    /\ events[j].isDir = v.isDir

\* C1: when every directory of the tree can be listed and the visitor always
\* returns nil, a Walk that has returned has returned nil and has called the
\* visitor exactly once for every entry strictly below the root, with the
\* entry's own kind, and for nothing else (not for the root).
C1_WalkVisitsEveryEntryOnce ==
    (result # Pending /\ unreadable = {} /\ AllVisitsNil) =>
        /\ result = Nil
        /\ \A k \in EntriesOf(fs0, Resolve(from)) : Cardinality(VisitsOf(k)) = 1
        /\ \A i \in Visits :
              /\ Target(events[i]) \in EntriesOf(fs0, Resolve(from))
              /\ events[i].isDir = fs0[Target(events[i])].isDir

\* A complete walk with a nil visitor over a tree that has a directory and a
\* file two levels below the root.
C1_Witness ==
    /\ result = Nil /\ unreadable = {} /\ AllVisitsNil
    /\ \E i, j \in Visits :
          /\ events[i].isDir /\ ~events[j].isDir
          /\ Len(Target(events[j])) = Len(Resolve(from)) + 2

\* The directories strictly between the root of the walk and the key k.
Enclosing(k) ==
    {SubSeq(k, 1, n) : n \in (Len(Resolve(from)) + 1)..(Len(k) - 1)}

\* C2: whenever the visitor is called for an entry inside a directory D below
\* the root, it was called for D earlier, that call returned nil, and it is
\* not called for D afterwards.
C2_ParentVisitedFirst ==
    \A j \in Visits : \A D \in Enclosing(Target(events[j])) :
        /\ \E i \in VisitsOf(D) : i < j /\ events[i].ret = Nil
        /\ \A i \in VisitsOf(D) : i < j

\* An entry two levels below the root has been visited.
C2_Witness ==
    \E j \in Visits : Len(Target(events[j])) = Len(Resolve(from)) + 2

\* C3: when the visitor returned ErrSkipDir for a directory D, D is never
\* listed and nothing inside D is visited; the next call of the visitor is for
\* the entry that follows D in its parent, and the walk does not return before
\* that call; and Walk returns ErrSkipDir only straight after a call for a
\* file, never because of D.
C3_SkipDirSkipsSubtree ==
    /\ \A i \in Visits :
          (events[i].isDir /\ events[i].ret = ErrSkipDir) =>
              /\ \A j \in Listings : Resolve(events[j].dir) # Target(events[i])
              /\ \A j \in Visits : ~Below(Target(events[j]), Target(events[i]))
              /\ events[i].rest # <<>> =>
                    IF i < Len(events)
                    THEN /\ IsVisitOf(i + 1, events[i].dir, Head(events[i].rest))
                         /\ events[i + 1].rest = Tail(events[i].rest)
                    ELSE result = Pending /\ retval = None
    /\ result = ErrSkipDir => (events # <<>> /\ ~Last(events).isDir)
    /\ retval = ErrSkipDir => (events # <<>> /\ ~Last(events).isDir)

\* A non-empty directory was skipped, the entry after it was visited and the
\* walk has returned nil.
C3_Witness ==
    /\ result = Nil
    /\ \E i \in Visits :
          /\ events[i].isDir /\ events[i].ret = ErrSkipDir
          /\ EntriesOf(fs0, Target(events[i])) # {}
          /\ events[i].rest # <<>>
          /\ i < Len(events)

\* C4: when the visitor returned ErrSkipDir for a file, Walk does not return
\* ErrSkipDir, and it goes on to call the visitor for the entry that follows
\* the file.
C4_SkipOnFileContinues ==
    \A i \in Visits :
        (~events[i].isDir /\ events[i].ret = ErrSkipDir) =>
            /\ result # ErrSkipDir
            /\ (events[i].rest # <<>> /\ result # Pending) =>
                  /\ i < Len(events)
                  /\ IsVisitOf(i + 1, events[i].dir, Head(events[i].rest))

\* C5: when the visitor returned an error other than ErrSkipDir, that call is
\* the last event of the walk (no visit and no listing follows, at any level),
\* every frame returns that error, and it is what the outermost Walk returns.
C5_VisitorErrorAborts ==
    \A i \in Visits :
        events[i].ret \in VisitorErrors =>
            /\ i = Len(events)
            /\ retval \in {None, events[i].ret}
            /\ result \in {Pending, events[i].ret}
            /\ stack = <<>> => result = events[i].ret

\* The visitor failed two levels below the root with entries still to come
\* there, and the outermost Walk has returned its error.
C5_Witness ==
    /\ result \in VisitorErrors
    /\ events # <<>>
    /\ Last(events).kind = "visit"
    /\ Last(events).ret = result
    /\ Last(events).rest # <<>>
    /\ Len(Target(Last(events))) = Len(Resolve(from)) + 2

-----------------------------------------------------------------------------
(* Ls(dir) called on one directory *)

\* The names of the first n entries of the listed directory.
LsName(i) == NameOrder[i + 2]

\* The working directory holding the directory A, whose i-th entry by name is
\* a directory when kinds[i] and a file otherwise.
FlatTree(kinds) ==
    [k \in {<<>>, SrcRoot} \cup {Append(SrcRoot, LsName(i)) : i \in 1..Len(kinds)} |->
        IF Len(k) < 2 THEN DirNode ELSE NewNode(k, kinds[Rank(k[2]) - 2])]

InitLs ==
    /\ \E n \in 0..MaxLsEntries : \E kinds \in [1..n -> BOOLEAN] : fs = FlatTree(kinds)
    /\ fs0 = fs
    /\ unreadable \in {{}, {SrcRoot}}
    /\ variant \in Variants
    /\ goos \in Systems
    /\ op = "Ls"
    /\ from = SrcRoot
    /\ to = <<>>
    /\ pc = "ls"
    /\ stack = <<>>
    /\ retval = None
    /\ result = Pending
    /\ events = <<>>
    /\ archive = NoArchive

\* files, err := ioutil.ReadDir(dir); sort.Sort(FileInfoByType(files));
\* return files, err
LsCall ==
    /\ pc = "ls"
    /\ \E o \in Ls(fs, unreadable, from) :
          /\ events' = Append(events, LsEvent(from, o))
          /\ result' = o.err
    /\ pc' = "done"
    /\ UNCHANGED <<fs, fs0, unreadable, variant, goos, op, from, to, stack, retval, archive>>

NextLs == LsCall

SpecLs == InitLs /\ [][NextLs]_vars

\* What the underlying directory read returned to the listing events[i].
RawOf(i) == ReadDir(fs0, unreadable, events[i].dir).files

Range(s) == {s[i] : i \in 1..Len(s)}

\* The place of the entry e in the sequence s.
IndexIn(s, e) == CHOOSE k \in 1..Len(s) : s[k] = e

\* C6: when the directory read succeeds, what Ls returns has the length of
\* what the read returned and the same entries, none twice, and no file comes
\* before a directory.
C6_LsDirsFirstPermutation ==
    \A i \in Listings :
        events[i].ret = Nil =>
            LET out == events[i].rest
            IN  /\ Len(out) = Len(RawOf(i))
                /\ Range(out) = Range(RawOf(i))
                /\ Cardinality(Range(out)) = Len(out)
                /\ \A a, b \in 1..Len(out) :
                      (a < b) => ~(~out[a].isDir /\ out[b].isDir)

\* Ls has returned a directory read of at least four entries in which a file
\* came before a directory.
C6_Witness ==
    /\ op = "Ls" /\ pc = "done" /\ result = Nil
    /\ \E i \in Listings :
          /\ Len(RawOf(i)) >= 4
          /\ \E a, b \in 1..Len(RawOf(i)) :
                a < b /\ ~RawOf(i)[a].isDir /\ RawOf(i)[b].isDir

\* C7: two entries of the same kind are, in what Ls returns, in the order the
\* directory read returned them.
C7_LsStable ==
    \A i \in Listings :
        events[i].ret = Nil =>
            LET out == events[i].rest
            IN  \A a, b \in 1..Len(out) :
                    (a < b /\ out[a].isDir = out[b].isDir) =>
                        IndexIn(RawOf(i), out[a]) < IndexIn(RawOf(i), out[b])

-----------------------------------------------------------------------------
(* Mv(from, to) called on one file *)

\* The contents a file may have when Mv is called.
MvData == {<<>>, <<1>>, <<2, 3>>}

MvFrom == <<"A", Sep, "a">>
MvTo == <<"B", Sep, "b">>

\* The file systems Mv is called on: the source is absent or a file; the
\* destination directory is absent or there, and then the destination is
\* absent, a file or a directory.
MvTrees ==
    LET srcs == {EmptyTree} \cup {Put(EmptyTree, Resolve(MvFrom), FileNode(d)) : d \in MvData}
        withB(t) == Put(t, DstRoot, DirNode)
    IN  UNION {{t, withB(t), Put(withB(t), Resolve(MvTo), DirNode)}
                  \cup {Put(withB(t), Resolve(MvTo), FileNode(d)) : d \in MvData}
               : t \in srcs}

InitMv ==
    /\ fs \in MvTrees
    /\ fs0 = fs
    /\ unreadable = {}
    /\ variant \in Variants
    /\ goos \in Systems
    /\ op = "Mv"
    /\ from = MvFrom
    /\ to = MvTo
    /\ pc = "mv"
    /\ stack = <<>>
    /\ retval = None
    /\ result = Pending
    /\ events = <<>>
    /\ archive = NoArchive

MvCall ==
    /\ pc = "mv"
    /\ \E o \in Mv(fs, from, to) :
          /\ fs' = o.fs
          /\ events' = events \o o.calls
          /\ result' = o.err
    /\ pc' = "done"
    /\ UNCHANGED <<fs0, unreadable, variant, goos, op, from, to, stack, retval, archive>>

NextMv == MvCall

SpecMv == InitMv /\ [][NextMv]_vars

Called(kind) == {i \in 1..Len(events) : events[i].kind = kind}

\* C8: when the fallback Cp of Mv has failed, Mv returns that error and a
\* source that was there is still there with the content it had; and the
\* source is gone only when the rename or the fallback Cp has returned nil.
C8_MvKeepsSourceUnlessCopied ==
    LET sk == Resolve(from)
    IN  /\ \A i \in Called("cp") :
              events[i].ret # Nil =>
                  /\ result = events[i].ret
                  /\ Exists(fs0, sk) => (Exists(fs, sk) /\ fs[sk] = fs0[sk])
        /\ (Exists(fs0, sk) /\ ~Exists(fs, sk)) =>
              \E i \in Called("rename") \cup Called("cp") : events[i].ret = Nil

\* In part_000, the rename failed and the copy failed in mid-stream, after it
\* had written into the destination.
C8_Witness ==
    /\ op = "Mv" /\ pc = "done" /\ variant = "filepath"
    /\ result = "ErrIO"
    /\ \E i \in Called("cp") : events[i].ret = "ErrIO"
    /\ Exists(fs0, Resolve(from))
    /\ Exists(fs, Resolve(to))
    /\ fs # fs0

\* C9: whenever Mv has returned nil, the source path is gone and the
\* destination is a file with the content the source had.
C9_MvNilMeansMoved ==
    (op = "Mv" /\ result = Nil) =>
        /\ ~Exists(fs, Resolve(from))
        /\ IsFileAt(fs, Resolve(to))
        /\ fs[Resolve(to)].data = fs0[Resolve(from)].data

-----------------------------------------------------------------------------
(* CpDir(from, to) called on a tree *)

CpDirTrees ==
    UNION {{t, Put(t, DstRoot, DirNode)} : t \in TreesUpTo(MaxNodes)}

InitCpDir ==
    /\ fs \in CpDirTrees
    /\ fs0 = fs
    /\ unreadable \in {{}} \cup {{k} : k \in DirsOf(fs)}
    /\ variant \in Variants
    /\ goos \in Systems
    /\ op = "CpDir"
    /\ from \in RootSpellings
    /\ to = DstRoot
    /\ pc = "walk"
    /\ stack = <<Frame(from)>>
    /\ retval = None
    /\ result = Pending
    /\ events = <<>>
    /\ archive = NoArchive

NextCpDir == WalkLs \/ WalkVisit \/ WalkResume \/ WalkReturn

SpecCpDir == InitCpDir /\ [][NextCpDir]_vars

\* The key in the destination tree of the source key k.
Projected(k) == Resolve(to) \o SubSeq(k, Len(Resolve(from)) + 1, Len(k))

\* C10: whenever CpDir has returned nil, every entry of the source tree has,
\* at the same relative path below the destination, an entry of the same
\* kind, and a file has the content of the source file.
C10_CpDirCopiesTree ==
    (op = "CpDir" /\ result = Nil) =>
        \A k \in EntriesOf(fs0, Resolve(from)) :
            /\ Exists(fs, Projected(k))
            /\ fs[Projected(k)].isDir = fs0[k].isDir
            /\ ~fs0[k].isDir => fs[Projected(k)].data = fs0[k].data

-----------------------------------------------------------------------------
(* MvDir(from, to) called on a tree *)

\* The file systems MvDir is called on: the destination is absent, an empty
\* directory, or a directory that already holds a file a.
MvDirTrees ==
    UNION {{t, Put(t, DstRoot, DirNode),
            Put(Put(t, DstRoot, DirNode), Append(DstRoot, "a"),
                FileNode(DataFor(<<"B", "a", "a">>)))}
           : t \in TreesUpTo(MaxNodes)}

InitMvDir ==
    /\ fs \in MvDirTrees
    /\ fs0 = fs
    /\ unreadable \in {{}} \cup {{k} : k \in DirsOf(fs)}
    /\ variant \in Variants
    /\ goos \in Systems
    /\ op = "MvDir"
    /\ from \in RootSpellings
    /\ to = DstRoot
    /\ pc = "rename"
    /\ stack = <<>>
    /\ retval = None
    /\ result = Pending
    /\ events = <<>>
    /\ archive = NoArchive

\* err := os.Rename(from, to): nil is returned, an error starts the walk.
MvDirRename ==
    /\ op = "MvDir" /\ pc = "rename"
    /\ \E r \in RenameOutcomes(fs, from, to) :
          /\ fs' = r.fs
          /\ events' = Append(events, CallEvent("rename", from, r.err))
          /\ IF r.err = Nil
             THEN result' = Nil /\ pc' = "done" /\ stack' = stack
             ELSE result' = result /\ pc' = "walk" /\ stack' = <<Frame(from)>>
    /\ UNCHANGED <<fs0, unreadable, variant, goos, op, from, to, retval, archive>>

\* os.RemoveAll(from), its error dropped; return nil.
MvDirRemoveAll ==
    /\ op = "MvDir" /\ pc = "removeall"
    /\ \E r \in RemoveAllOutcomes(fs, from) :
          /\ fs' = r.fs
          /\ events' = Append(events, CallEvent("removeall", from, r.err))
    /\ result' = Nil
    /\ pc' = "done"
    /\ UNCHANGED <<fs0, unreadable, variant, goos, op, from, to, stack, retval, archive>>

NextMvDir ==
    MvDirRename \/ WalkLs \/ WalkVisit \/ WalkResume \/ WalkReturn \/ MvDirRemoveAll

SpecMvDir == InitMvDir /\ [][NextMvDir]_vars

\* C11: whenever MvDir has returned nil, the source directory is gone and
\* every entry the source had is below the destination at the same relative
\* path, with its kind and, for a file, its content.
C11_MvDirNilMeansMoved ==
    (op = "MvDir" /\ result = Nil) =>
        /\ ~Exists(fs, Resolve(from))
        /\ \A k \in EntriesOf(fs0, Resolve(from)) :
              /\ Exists(fs, Projected(k))
              /\ fs[Projected(k)].isDir = fs0[k].isDir
              /\ ~fs0[k].isDir => fs[Projected(k)].data = fs0[k].data

\* The visits of a file, by MvDir's closure, that returned an error.
FailedMoves ==
    {i \in Visits : ~events[i].isDir /\ events[i].ret # Nil}

\* The files the source tree had when MvDir was called.
SourceFiles == {k \in EntriesOf(fs0, Resolve(from)) : ~fs0[k].isDir}

\* Some os.Rename or os.Remove of k, or of a directory k is in, returned nil.
MovedAway(k) ==
    \E j \in Called("rename") \cup Called("remove") :
        LET p == Resolve(events[j].dir)
        IN  /\ events[j].ret = Nil
            /\ Len(p) <= Len(k)
            /\ SubSeq(k, 1, Len(p)) = p

\* C12: when a per-file move fails during the fallback walk of MvDir, that is
\* the last thing MvDir does (no later entry is moved or created, the source
\* tree is not removed), MvDir returns that error, and every file of the
\* source that no call has moved away is still there with its content.
C12_MvDirStopsAtFailedMove ==
    op = "MvDir" =>
        \A i \in FailedMoves :
            /\ i = Len(events)
            /\ result \in {Pending, events[i].ret}
            /\ pc = "done" => result = events[i].ret
            /\ \A k \in SourceFiles :
                  MovedAway(k) \/ (Exists(fs, k) /\ fs[k] = fs0[k])

\* MvDir of part_000 has returned the error of a failed move, after another
\* file was moved and with a file of the source not yet visited.
C12_Witness ==
    /\ op = "MvDir" /\ variant = "filepath" /\ pc = "done"
    /\ \E i \in FailedMoves :
          /\ result = events[i].ret
          /\ \E j \in Visits : j < i /\ ~events[j].isDir /\ events[j].ret = Nil
          /\ \E k \in SourceFiles : VisitsOf(k) = {} /\ Exists(fs, k)

-----------------------------------------------------------------------------
(* ZipDir(from, zip) called on a tree, then Unzip(zip, to) *)

InitZip ==
    /\ fs \in MvDirTrees
    /\ fs0 = fs
    /\ unreadable \in {{}} \cup {{k} : k \in DirsOf(fs)}
    /\ variant \in Variants
    /\ goos \in Systems
    /\ op = "ZipDir"
    /\ from \in RootSpellings
    /\ to = DstRoot
    /\ pc = "walk"
    /\ stack = <<Frame(ZipSource)>>
    /\ retval = None
    /\ result = Pending
    /\ events = <<>>
    /\ archive = NoArchive

\* zwr.Close(): the central directory is written, or the writer fails.
ZipClose ==
    /\ op = "ZipDir" /\ pc = "close"
    /\ \E err \in {Nil, "ErrWrite"} :
          /\ archive' = [archive EXCEPT !.closed = (err = Nil)]
          /\ events' = Append(events, CallEvent("close", from, err))
          /\ result' = err
    /\ pc' = "done"
    /\ UNCHANGED <<fs, fs0, unreadable, variant, goos, op, from, to, stack, retval>>

\* Unzip of what ZipDir wrote: zip.NewReader fails on a stream that was not
\* closed; os.MkdirAll(to), its error dropped.
UnzipCall ==
    /\ op = "ZipDir" /\ pc = "done"
    /\ op' = "Unzip"
    /\ IF ~archive.closed
       THEN /\ result' = "ErrFormat"
            /\ events' = Append(events, CallEvent("newreader", to, "ErrFormat"))
            /\ UNCHANGED <<fs, pc, stack>>
       ELSE \E m \in MkdirAllOutcomes(fs, to) :
               /\ fs' = m.fs
               /\ events' = events \o <<CallEvent("newreader", to, Nil),
                                        CallEvent("mkdirall", to, m.err)>>
               /\ result' = Pending
               /\ pc' = "unzip"
               /\ stack' = <<[Frame(to) EXCEPT !.i = 1, !.pc = "unzip"]>>
    /\ UNCHANGED <<fs0, unreadable, variant, goos, from, to, retval, archive>>

\* What extracting one file entry does: os.OpenFile(fpath, O_WRONLY|O_CREATE)
\* and io.Copy(df, zf), which writes from offset 0 and truncates nothing.
ExtractOutcomes(f, v) ==
    LET k == Resolve(Join(to, v.name))
        created == IF Exists(f, k) THEN f ELSE Put(f, k, FileNode(<<>>))
        upto(n) == Put(f, k, FileNode(Overwrite(created[k].data, SubSeq(v.data, 1, n))))
    IN  {Outcome(f, "ErrPermission")} \cup
        (IF IsDirAt(f, k) THEN {Outcome(f, "ErrIsDir")}
         ELSE IF ~IsDirAt(f, Parent(k)) THEN {Outcome(f, "ErrNotExist")}
         ELSE {Outcome(upto(Len(v.data)), Nil)}
              \cup {Outcome(upto(n), "ErrIO") : n \in 0..(Len(v.data) - 1)})

\* One turn of the loop over rd.File.
UnzipEntry ==
    /\ op = "Unzip" /\ pc = "unzip" /\ Top.i <= Len(archive.entries)
    /\ LET v == archive.entries[Top.i]
       IN  IF v.isDir
           THEN \E m \in MkdirAllOutcomes(fs, Join(to, v.name)) :
                   /\ fs' = m.fs
                   /\ events' = Append(events, CallEvent("mkdirall", Join(to, v.name), m.err))
                   /\ stack' = SetTop([Top EXCEPT !.i = Top.i + 1])
                   /\ UNCHANGED <<result, pc>>
           ELSE \E x \in ExtractOutcomes(fs, v) :
                   /\ fs' = x.fs
                   /\ events' = Append(events, CallEvent("extract", Join(to, v.name), x.err))
                   /\ IF x.err = Nil
                      THEN /\ stack' = SetTop([Top EXCEPT !.i = Top.i + 1])
                           /\ UNCHANGED <<result, pc>>
                      ELSE /\ stack' = <<>>
                           /\ result' = x.err
                           /\ pc' = "done"
    /\ UNCHANGED <<fs0, unreadable, variant, goos, op, from, to, retval, archive>>

\* The loop is over: return nil.
UnzipReturn ==
    /\ op = "Unzip" /\ pc = "unzip" /\ Top.i > Len(archive.entries)
    /\ stack' = <<>>
    /\ result' = Nil
    /\ pc' = "done"
    /\ UNCHANGED <<fs, fs0, unreadable, variant, goos, op, from, to, retval, events, archive>>

NextZip ==
    \/ WalkLs \/ WalkVisit \/ WalkResume \/ WalkReturn \/ ZipClose
    \/ UnzipCall \/ UnzipEntry \/ UnzipReturn

SpecZip == InitZip /\ [][NextZip]_vars

\* The names joined by the slash, as a zip archive spells a path.
RECURSIVE SlashJoin(_)
SlashJoin(names) ==
    IF Len(names) <= 1 THEN names
    ELSE <<Head(names), Sep>> \o SlashJoin(Tail(names))

\* The path of the source entry k relative to the source directory, with a
\* slash at the end when k is a directory.
RelativeName(k) ==
    SlashJoin(SubSeq(k, Len(Resolve(from)) + 1, Len(k)))
        \o (IF fs0[k].isDir THEN <<Sep>> ELSE <<>>)

\* The visits of ZipDir's closure that wrote an entry, in order.
EntryVisits ==
    SelectSeq(events, LAMBDA e : e.kind = "visit" /\ e.ret # "ErrWrite")

\* C13: every entry ZipDir has written is named by the path of its source
\* entry relative to the source directory (no source root in front, at every
\* depth), ending with a slash exactly when the source entry is a directory.
C13_EntryNamesRelative ==
    op \in {"ZipDir", "Unzip"} =>
        /\ Len(archive.entries) = Len(EntryVisits)
        /\ \A j \in 1..Len(archive.entries) :
              archive.entries[j].name = RelativeName(Target(EntryVisits[j]))

\* C14: when ZipDir of the source directory and then Unzip into the
\* destination have both returned nil, every entry of the source is below the
\* destination at the same relative path, with its kind (an empty directory
\* is an empty directory) and, for a file, its content.
C14_ZipUnzipRoundTrip ==
    (op = "Unzip" /\ pc = "done" /\ result = Nil) =>
        \A k \in EntriesOf(fs0, Resolve(from)) :
            /\ Exists(fs, Projected(k))
            /\ fs[Projected(k)].isDir = fs0[k].isDir
            /\ ~fs0[k].isDir => fs[Projected(k)].data = fs0[k].data

-----------------------------------------------------------------------------
(* Cp(from, to) called on one file *)

InitCp ==
    /\ fs \in MvTrees
    /\ fs0 = fs
    /\ unreadable = {}
    /\ variant \in Variants
    /\ goos \in Systems
    /\ op = "Cp"
    /\ from = MvFrom
    /\ to = MvTo
    /\ pc = "cp"
    /\ stack = <<>>
    /\ retval = None
    /\ result = Pending
    /\ events = <<>>
    /\ archive = NoArchive

CpCall ==
    /\ op = "Cp" /\ pc = "cp"
    /\ \E o \in Cp(fs, from, to) :
          /\ fs' = o.fs
          /\ events' = Append(events, CallEvent("cp", from, o.err))
          /\ result' = o.err
    /\ pc' = "done"
    /\ UNCHANGED <<fs0, unreadable, variant, goos, op, from, to, stack, retval, archive>>

NextCp == CpCall

SpecCp == InitCp /\ [][NextCp]_vars

\* C15: whenever Cp has returned nil, the destination is a file whose content
\* is exactly the content the source had, whatever was at the destination
\* before.
C15_CpNilMeansSameContent ==
    (op = "Cp" /\ result = Nil) =>
        /\ IsFileAt(fs, Resolve(to))
        /\ fs[Resolve(to)].data = fs0[Resolve(from)].data

\* The steps of ZipDir's walk (a listing or a call of the closure) that
\* returned an error: Walk returns the first of them.
WalkFailures ==
    {i \in Visits \cup Listings : events[i].ret # Nil}

\* C16: ZipDir closes the archive only after a walk in which nothing failed;
\* once a step of the walk has failed, zwr.Close() is never called, the
\* archive is never finalized, and ZipDir returns the error of that step.
C16_CloseOnlyAfterWalkNil ==
    /\ (archive.closed \/ Called("close") # {}) => WalkFailures = {}
    /\ \A i \in WalkFailures :
          /\ ~archive.closed
          /\ op = "ZipDir" => /\ result \in {Pending, events[i].ret}
                              /\ pc = "done" => result = events[i].ret

\* ZipDir has returned the error of a failed copy into the second entry, and
\* the archive holding the first entry is not finalized.
C16_Witness ==
    /\ op = "ZipDir" /\ pc = "done"
    /\ Len(archive.entries) = 2 /\ ~archive.closed
    /\ \E i \in WalkFailures : events[i].ret = "ErrIO" /\ result = "ErrIO"

-----------------------------------------------------------------------------
(* WalkFromTo: the destination paths of CpDir and MvDir *)

\* The walk is about to call the closure for a file of the directory Top.dir.
AboutToVisitFile ==
    /\ pc = "walk" /\ stack # <<>>
    /\ Top.pc = "loop" /\ Top.i <= Len(Top.info)
    /\ ~Top.info[Top.i].isDir

\* C17: when CpDir (or MvDir in its fallback) is about to copy a file, the
\* destination directory that is to contain it exists: the destination root
\* and every nested directory was created before, or was there already.
C17_DestinationDirExists ==
    (op \in {"CpDir", "MvDir"} /\ AboutToVisitFile) =>
        IsDirAt(fs, Resolve(WalkFromToTarget(Top.dir)))

\* C18: in every call of WalkFromTo's closure the destination path, with `to`
\* taken off, is the same relative path as the source path with `from` taken
\* off, at every depth and for every spelling of `from`.
C18_SameRelativePath ==
    op \in {"CpDir", "MvDir"} =>
        \A i \in Visits :
            Resolve(WalkFromToTarget(events[i].dir)) = Projected(Resolve(events[i].dir))

-----------------------------------------------------------------------------
(* Errors of primitives in MvDir *)

\* The calls of a primitive (or of Cp) that failed, a rename apart: a failed
\* rename starts the copy.
PrimitiveFailures ==
    {i \in 1..Len(events) :
        /\ events[i].kind \notin {"visit", "rename"}
        /\ events[i].ret # Nil}

\* C19: once MvDir has returned, its result is the error of the first
\* primitive that failed (a failed rename apart; os.Mkdir and os.RemoveAll
\* included); it is nil only when none has failed.
C19_FirstPrimitiveErrorReturned ==
    (op = "MvDir" /\ pc = "done") =>
        \A i \in PrimitiveFailures :
            (\A j \in PrimitiveFailures : i <= j) => result = events[i].ret

-----------------------------------------------------------------------------
(* Walk: directories before files *)

\* The visits of a file, in a walk called by a caller of Walk.
FileVisits == {i \in Visits : ~events[i].isDir}

\* Before events[i]: k was visited, or a directory above k and below x was
\* visited and its visit returned ErrSkipDir.
WalkedOrSkipped(k, x, i) ==
    \/ \E j \in VisitsOf(k) : j < i
    \/ \E n \in (Len(x) + 1)..(Len(k) - 1) :
          \E j \in VisitsOf(SubSeq(k, 1, n)) : j < i /\ events[j].ret = ErrSkipDir

\* C20: when a file directly in a directory X is visited, every subdirectory
\* of X and everything below the subdirectories of X has been visited already,
\* or lies below a directory whose visit returned ErrSkipDir.
C20_SubtreesBeforeFiles ==
    op = "Walk" =>
        \A i \in FileVisits :
            LET x == Resolve(events[i].dir)
            IN  \A k \in EntriesOf(fs0, x) :
                    (fs0[k].isDir \/ Len(k) > Len(x) + 1) => WalkedOrSkipped(k, x, i)

\* The file a of the root is visited after the file a of the directory b,
\* though a comes before b in the read of the root.
C20_Witness ==
    /\ op = "Walk"
    /\ \E i \in VisitsOf(<<"A", "a">>) :
          /\ ~events[i].isDir
          /\ \E j \in VisitsOf(<<"A", "b", "a">>) : j < i /\ ~events[j].isDir

====
